---- MODULE Spec2Model ----
(***************************************************************************)
(* A model of generate_dummy_files.py: the size parser (parse_size), the   *)
(* chunked writer (generate_dummy_file) and the command-line driver (main).*)
(*                                                                         *)
(* Text (size tokens, file names, operator answers) is a sequence of       *)
(* one-character strings; file contents are sequences of byte values.      *)
(* Python integers are unbounded: the byte counts parse_size returns are   *)
(* kept as base-1024 limb sequences (most significant limb first, <<>> is  *)
(* zero) with a sign, so that 1024^4 and its multiples are exact.          *)
(***************************************************************************)
EXTENDS Integers, Sequences, FiniteSets, TLC

VARIABLES
    size_str,           \* parse_size: the argument of the call under study
    parsed,             \* parse_size: its outcome (value or ValueError)
    args,               \* main: the argparse namespace
    pc,                 \* position in the program
    chunk_size,         \* main: parsed --chunk-size
    sizes_bytes,        \* main: parsed sizes
    i,                  \* main: 1-based index of the size being processed
    filename,           \* main / generate_dummy_file: the target path
    size_bytes,         \* main / generate_dummy_file: the requested size
    content_type,       \* generate_dummy_file: the content type
    success_count,      \* main: files generated successfully
    response,           \* main: the operator's last answer to a prompt
    exit_code,          \* the process exit status (-1 while running)
    remaining,          \* generate_dummy_file: bytes still to be requested
    current_chunk_size, \* generate_dummy_file: length requested this iteration
    chunk,              \* generate_dummy_file: the chunk built this iteration
    actual_size,        \* generate_dummy_file: os.path.getsize result
    ret,                \* generate_dummy_file: return value ("none" before)
    fs,                 \* the file system: path -> [exists, data]
    fs0,                \* history: the file system when main started
    io_error,           \* history: where the current call caught an IOError
    iters,              \* history: iterations of the write loop in this call
    requested,          \* history: sum of the chunk lengths requested
    prompts,            \* history: number of input() prompts issued
    failed_msgs,        \* history: number of "Failed to generate" lines
    results             \* history: per size index, how its file ended

vars == <<size_str, parsed, args, pc, chunk_size, sizes_bytes, i, filename,
          size_bytes, content_type, success_count, response, exit_code,
          remaining, current_chunk_size, chunk, actual_size, ret, fs, fs0,
          io_error, iters, requested, prompts, failed_msgs, results>>

(***************************************************************************)
(* Characters and strings                                                  *)
(***************************************************************************)
Lowers == <<"a","b","c","d","e","f","g","h","i","j","k","l","m",
            "n","o","p","q","r","s","t","u","v","w","x","y","z">>
Uppers == <<"A","B","C","D","E","F","G","H","I","J","K","L","M",
            "N","O","P","Q","R","S","T","U","V","W","X","Y","Z">>
Digits == <<"0","1","2","3","4","5","6","7","8","9">>
Whitespace == {" ", "\t", "\n"}

IsDigit(c) == \E d \in 1..10 : Digits[d] = c
DigitVal(c) == (CHOOSE d \in 1..10 : Digits[d] = c) - 1

UpperChar(c) ==
    IF \E k \in 1..26 : Lowers[k] = c
    THEN Uppers[CHOOSE k \in 1..26 : Lowers[k] = c] ELSE c
LowerChar(c) ==
    IF \E k \in 1..26 : Uppers[k] = c
    THEN Lowers[CHOOSE k \in 1..26 : Uppers[k] = c] ELSE c

\* str.upper() and str.lower()
StrUpper(s) == [k \in 1..Len(s) |-> UpperChar(s[k])]
StrLower(s) == [k \in 1..Len(s) |-> LowerChar(s[k])]

RECURSIVE LStrip(_)
LStrip(s) == IF s # <<>> /\ Head(s) \in Whitespace THEN LStrip(Tail(s)) ELSE s
RECURSIVE RStrip(_)
RStrip(s) ==
    IF s # <<>> /\ s[Len(s)] \in Whitespace
    THEN RStrip(SubSeq(s, 1, Len(s) - 1)) ELSE s
\* str.strip()
StrStrip(s) == RStrip(LStrip(s))

\* str.endswith(suffix)
EndsWith(s, suffix) ==
    /\ Len(s) >= Len(suffix)
    /\ SubSeq(s, Len(s) - Len(suffix) + 1, Len(s)) = suffix

(***************************************************************************)
(* Unbounded naturals: base-1024 limbs, most significant first             *)
(***************************************************************************)
Base == 1024

RECURSIVE BigNorm(_)
BigNorm(b) == IF b # <<>> /\ Head(b) = 0 THEN BigNorm(Tail(b)) ELSE b

RECURSIVE BigFromNat(_)
BigFromNat(n) ==
    IF n = 0 THEN <<>> ELSE Append(BigFromNat(n \div Base), n % Base)

RECURSIVE BigToNat(_)
BigToNat(b) ==
    IF b = <<>> THEN 0
    ELSE BigToNat(SubSeq(b, 1, Len(b) - 1)) * Base + b[Len(b)]

\* b * d + a for small d and a
RECURSIVE BigMulAdd(_, _, _)
BigMulAdd(b, d, a) ==
    IF b = <<>> THEN BigFromNat(a)
    ELSE LET t == b[Len(b)] * d + a
         IN  Append(BigMulAdd(SubSeq(b, 1, Len(b) - 1), d, t \div Base), t % Base)

\* b * 1024^k
BigShift(b, k) == IF b = <<>> THEN <<>> ELSE b \o [j \in 1..k |-> 0]

\* long division of b by a small d: quotient limbs and remainder
RECURSIVE BigDivRem(_, _)
BigDivRem(b, d) ==
    IF b = <<>> THEN [q |-> <<>>, r |-> 0]
    ELSE LET p == BigDivRem(SubSeq(b, 1, Len(b) - 1), d)
             t == p.r * Base + b[Len(b)]
         IN  [q |-> Append(p.q, t \div d), r |-> t % d]

RECURSIVE BigLexLeq(_, _)
BigLexLeq(a, b) ==
    IF a = <<>> THEN TRUE
    ELSE IF Head(a) # Head(b) THEN Head(a) < Head(b)
    ELSE BigLexLeq(Tail(a), Tail(b))
\* a <= b, both without leading zero limbs
BigLeq(a, b) == Len(a) < Len(b) \/ (Len(a) = Len(b) /\ BigLexLeq(a, b))

RECURSIVE Pow10(_)
Pow10(d) == IF d = 0 THEN 1 ELSE 10 * Pow10(d - 1)

(***************************************************************************)
(* float(text) and int(text) on plain decimal notation                     *)
(***************************************************************************)
ValueError == [ok |-> FALSE, neg |-> FALSE, mag |-> <<>>]

HasSign(s) == s # <<>> /\ Head(s) \in {"+", "-"}
Unsigned(s) == IF HasSign(s) THEN Tail(s) ELSE s
DotAt(s) == IF \E k \in 1..Len(s) : s[k] = "."
            THEN CHOOSE k \in 1..Len(s) : s[k] = "." ELSE 0

\* the digits of s as a natural number
RECURSIVE DigitsToBig(_)
DigitsToBig(s) ==
    IF s = <<>> THEN <<>>
    ELSE BigNorm(BigMulAdd(DigitsToBig(SubSeq(s, 1, Len(s) - 1)), 10,
                           DigitVal(s[Len(s)])))

\* float(text): an optional sign, digits with at most one point and at least
\* one digit, surrounding whitespace ignored.  The value is mant / 10^scale.
\* A double holds it to 53 bits; the product with a power of 1024 is exact,
\* so int(number * 1024^k) equals the truncated exact product for a number
\* of at most three fractional digits and a result below 2^46.
PyFloat(text) ==
    LET s == StrStrip(text)
        u == Unsigned(s)
        dot == DotAt(u)
        ip == IF dot = 0 THEN u ELSE SubSeq(u, 1, dot - 1)
        fp == IF dot = 0 THEN <<>> ELSE SubSeq(u, dot + 1, Len(u))
        good == /\ \A k \in 1..Len(ip) : IsDigit(ip[k])
                /\ \A k \in 1..Len(fp) : IsDigit(fp[k])
                /\ Len(ip) + Len(fp) > 0
    IN  IF good
        THEN [ok |-> TRUE, neg |-> HasSign(s) /\ Head(s) = "-",
              mant |-> DigitsToBig(ip \o fp), scale |-> Len(fp)]
        ELSE [ok |-> FALSE, neg |-> FALSE, mant |-> <<>>, scale |-> 0]

\* int(text): an optional sign and at least one digit, nothing else
PyInt(text) ==
    LET s == StrStrip(text)
        u == Unsigned(s)
    IN  IF u # <<>> /\ \A k \in 1..Len(u) : IsDigit(u[k])
        THEN LET m == DigitsToBig(u)
             IN  [ok |-> TRUE, neg |-> HasSign(s) /\ Head(s) = "-" /\ m # <<>>,
                  mag |-> m]
        ELSE ValueError

\* int(number * multiplier): the product truncated toward zero
IntOfProduct(number, k) ==
    LET m == BigNorm(BigDivRem(BigShift(number.mant, k), Pow10(number.scale)).q)
    IN  [ok |-> TRUE, neg |-> number.neg /\ m # <<>>, mag |-> m]

(***************************************************************************)
(* parse_size                                                              *)
(***************************************************************************)
\* the units dict, in its iteration order; the multiplier is 1024^exp
units == << [unit |-> <<"K","B">>, exp |-> 1],
            [unit |-> <<"M","B">>, exp |-> 2],
            [unit |-> <<"G","B">>, exp |-> 3],
            [unit |-> <<"T","B">>, exp |-> 4] >>

\* the first unit of the dict that the string ends with, 0 when none does
MatchUnit(s) ==
    IF \E k \in 1..Len(units) : EndsWith(s, units[k].unit)
    THEN CHOOSE k \in 1..Len(units) :
            /\ EndsWith(s, units[k].unit)
            /\ \A j \in 1..(k - 1) : ~EndsWith(s, units[j].unit)
    ELSE 0

ParseSizeNoUnitFloat(s) ==
    LET number == PyFloat(s)
    IN  IF number.ok THEN IntOfProduct(number, 0) ELSE ValueError

ParseSizeNoUnit(s) == PyInt(s)

parse_size(text) ==
    LET s == StrStrip(StrUpper(text))
        k == MatchUnit(s)
    IN  IF k # 0
        THEN LET number == PyFloat(SubSeq(s, 1, Len(s) - Len(units[k].unit)))
             IN  IF number.ok THEN IntOfProduct(number, units[k].exp)
                 ELSE ValueError
        ELSE ParseSizeNoUnit(s)

\* a parsed size as a model integer (for sizes below 2^31)
IntOf(r) == IF r.neg THEN 0 - BigToNat(r.mag) ELSE BigToNat(r.mag)

(***************************************************************************)
(* The calls of parse_size under study                                     *)
(***************************************************************************)
\* Decimal numbers as an operator may type them: the text, and the number
\* it denotes, (-1)^neg * mant / 10^scale; point: the text holds a point.
Numbers == {
    [txt |-> <<"0">>,                     neg |-> FALSE, mant |-> 0,     scale |-> 0, point |-> FALSE],
    [txt |-> <<"1">>,                     neg |-> FALSE, mant |-> 1,     scale |-> 0, point |-> FALSE],
    [txt |-> <<"1","0","0">>,             neg |-> FALSE, mant |-> 100,   scale |-> 0, point |-> FALSE],
    [txt |-> <<"5","0","0">>,             neg |-> FALSE, mant |-> 500,   scale |-> 0, point |-> FALSE],
    [txt |-> <<"+","3">>,                 neg |-> FALSE, mant |-> 3,     scale |-> 0, point |-> FALSE],
    [txt |-> <<"-","1">>,                 neg |-> TRUE,  mant |-> 1,     scale |-> 0, point |-> FALSE],
    [txt |-> <<"2",".","5">>,             neg |-> FALSE, mant |-> 25,    scale |-> 1, point |-> TRUE],
    [txt |-> <<"0",".","1">>,             neg |-> FALSE, mant |-> 1,     scale |-> 1, point |-> TRUE],
    [txt |-> <<".","5">>,                 neg |-> FALSE, mant |-> 5,     scale |-> 1, point |-> TRUE],
    [txt |-> <<"7",".">>,                 neg |-> FALSE, mant |-> 7,     scale |-> 0, point |-> TRUE],
    [txt |-> <<"0",".","0","0","1">>,     neg |-> FALSE, mant |-> 1,     scale |-> 3, point |-> TRUE],
    [txt |-> <<"1","2",".","3","4","5">>, neg |-> FALSE, mant |-> 12345, scale |-> 3, point |-> TRUE],
    [txt |-> <<"-","0",".","1">>,         neg |-> TRUE,  mant |-> 1,     scale |-> 1, point |-> TRUE],
    [txt |-> <<"-","1",".","5">>,         neg |-> TRUE,  mant |-> 15,    scale |-> 1, point |-> TRUE] }

\* Texts that are no number
NotNumbers == { <<>>, <<"a","b","c">>, <<"1",".","2",".","3">>, <<"-">>,
                <<".">>, <<"1","x">>, <<"1","B">> }

UnitText(k, lower) ==
    IF k = 0 THEN <<>>
    ELSE IF lower THEN StrLower(units[k].unit) ELSE units[k].unit

Padded(t, pad) == IF pad THEN <<" ">> \o t \o <<" ">> ELSE t

\* a size string together with what it denotes: number N and unit 1024^exp
ValidArgs ==
    { [text |-> Padded(n.txt \o UnitText(k, lower), pad), valid |-> TRUE,
       neg |-> n.neg, mant |-> n.mant, scale |-> n.scale, point |-> n.point,
       exp |-> k] :
      n \in Numbers, k \in 0..4, lower \in BOOLEAN, pad \in BOOLEAN }
InvalidArgs ==
    { [text |-> t \o UnitText(k, FALSE), valid |-> FALSE,
       neg |-> FALSE, mant |-> 0, scale |-> 0, point |-> FALSE, exp |-> k] :
      t \in NotNumbers, k \in 0..4 }
ParseArgs == ValidArgs \cup InvalidArgs
NoArg == [text |-> <<>>, valid |-> FALSE, neg |-> FALSE, mant |-> 0,
          scale |-> 0, point |-> FALSE, exp |-> 0]

NoArgs == [filename |-> <<>>, sizes |-> <<>>, type |-> "random",
           chunk_size |-> <<>>, force |-> FALSE]

\* the variables of main and of generate_dummy_file before either has run
MainIdle ==
    /\ args = NoArgs /\ sizes_bytes = <<>> /\ i = 0
    /\ success_count = 0 /\ response = <<>> /\ exit_code = -1
    /\ prompts = 0 /\ failed_msgs = 0 /\ results = <<>>
GenIdle ==
    /\ filename = <<>> /\ size_bytes = 0 /\ content_type = "random"
    /\ remaining = 0 /\ current_chunk_size = 0 /\ chunk = <<>>
    /\ actual_size = 0 /\ ret = "none" /\ io_error = "none"
    /\ iters = 0 /\ requested = 0

mainVars == <<args, chunk_size, sizes_bytes, i, success_count, response,
              exit_code, prompts, failed_msgs, results>>
genVars == <<filename, size_bytes, content_type, remaining,
             current_chunk_size, chunk, actual_size, ret, io_error, iters,
             requested>>

InitParse ==
    /\ size_str \in ParseArgs
    /\ parsed = ValueError
    /\ pc = "parse_size"
    /\ MainIdle /\ GenIdle /\ chunk_size = 0
    /\ fs = <<>> /\ fs0 = <<>>

\* one call parse_size(size_str)
ParseSizeCall ==
    /\ pc = "parse_size"
    /\ parsed' = parse_size(size_str.text)
    /\ pc' = "parsed"
    /\ UNCHANGED <<size_str, fs, fs0>>
    /\ UNCHANGED mainVars /\ UNCHANGED genVars

NextParse == ParseSizeCall

SpecParse == InitParse /\ [][NextParse]_vars /\ WF_vars(NextParse)

(***************************************************************************)
(* C3                                                                      *)
(***************************************************************************)
\* the exact product mant * 1024^exp, and bounds q * 10^scale around it
Product(a) == BigShift(BigFromNat(a.mant), a.exp)
Scaled(q, a) == BigNorm(BigMulAdd(q, Pow10(a.scale), 0))
ScaledNext(q, a) == BigNorm(BigMulAdd(q, Pow10(a.scale), Pow10(a.scale)))
BigLess(a, b) == ~BigLeq(b, a)

\* r is floor(N * 1024^exp)
IsFloor(r, a) ==
    /\ r.ok
    /\ IF ~a.neg \/ a.mant = 0
       THEN /\ ~r.neg
            /\ BigLeq(Scaled(r.mag, a), Product(a))
            /\ BigLess(Product(a), ScaledNext(r.mag, a))
       ELSE /\ r.neg
            /\ BigLeq(Product(a), Scaled(r.mag, a))
            /\ BigLess(Scaled(r.mag, a), BigNorm(BigMulAdd(Product(a), 1, Pow10(a.scale))))

\* r is N * 1024^exp truncated toward zero
IsTrunc(r, a) ==
    /\ r.ok
    /\ BigLeq(Scaled(r.mag, a), Product(a))
    /\ BigLess(Product(a), ScaledNext(r.mag, a))
    /\ r.neg = (a.neg /\ r.mag # <<>>)

\* C3 as stated: for every valid size string N<unit>, unit in {"", KB, MB,
\* GB, TB}, in any case and with surrounding whitespace, parse_size returns
\* floor(N * 1024^k).
C3_ParseSizeFloor ==
    (pc = "parsed" /\ size_str.valid) => IsFloor(parsed, size_str)

\* C3 amended: with a unit suffix parse_size returns N * 1024^k truncated
\* toward zero (the floor for N >= 0); with no suffix the text must be an
\* integer literal, which is returned as the byte count, and a text with a
\* decimal point raises ValueError.
C3_ParseSizeTrunc ==
    (pc = "parsed" /\ size_str.valid) =>
        IF size_str.exp = 0 /\ size_str.point
        THEN ~parsed.ok
        ELSE IsTrunc(parsed, size_str)

\* 2.5GB in lower case with surrounding blanks has been parsed to 2684354560
C3_Witness ==
    /\ pc = "parsed"
    /\ size_str.text = <<" ", "2", ".", "5", "g", "b", " ">>
    /\ parsed.ok /\ ~parsed.neg
    /\ parsed.mag = <<2, 512, 0, 0>>

\* malformed input is rejected
ParseSizeRejects ==
    (pc = "parsed" /\ ~size_str.valid) => ~parsed.ok

(***************************************************************************)
(* Content generation (the body of the write loop)                         *)
(***************************************************************************)
Min(a, b) == IF a < b THEN a ELSE b
Max(a, b) == IF a > b THEN a ELSE b

\* seq[:n]
SlicePrefix(seq, n) ==
    IF n >= 0 THEN SubSeq(seq, 1, Min(n, Len(seq)))
    ELSE SubSeq(seq, 1, Max(Len(seq) + n, 0))

\* seq * k
Repeat(seq, k) ==
    [j \in 1..(Len(seq) * Max(k, 0)) |-> seq[((j - 1) % Len(seq)) + 1]]

\* b'\x00' * n
ZerosChunk(n) == [j \in 1..n |-> 0]

\* b'ABCDEFGHIJKLMNOPQRSTUVWXYZ0123456789'
pattern == <<65, 66, 67, 68, 69, 70, 71, 72, 73, 74, 75, 76, 77, 78, 79, 80,
             81, 82, 83, 84, 85, 86, 87, 88, 89, 90,
             48, 49, 50, 51, 52, 53, 54, 55, 56, 57>>

PatternChunkShort(n) == SlicePrefix(Repeat(pattern, n \div Len(pattern)), n)

\* (pattern * (n // len(pattern) + 1))[:n]
PatternChunk(n) == SlicePrefix(Repeat(pattern, n \div Len(pattern) + 1), n)

\* "This is a dummy file for testing purposes. Line number: " in UTF-8
text_line == <<84, 104, 105, 115, 32, 105, 115, 32, 97, 32, 100, 117, 109,
               109, 121, 32, 102, 105, 108, 101, 32, 102, 111, 114, 32, 116,
               101, 115, 116, 105, 110, 103, 32, 112, 117, 114, 112, 111,
               115, 101, 115, 46, 32, 76, 105, 110, 101, 32, 110, 117, 109,
               98, 101, 114, 58, 32>>

\* str(n) in UTF-8, n >= 0
RECURSIVE DecimalBytes(_)
DecimalBytes(n) ==
    IF n < 10 THEN <<48 + n>>
    ELSE Append(DecimalBytes(n \div 10), 48 + (n % 10))

\* text_line.format(k), with its newline
TextLine(k) == text_line \o DecimalBytes(k) \o <<10>>

\* the lines 0 .. lines_needed - 1, concatenated
RECURSIVE TextContent(_)
TextContent(lines_needed) ==
    IF lines_needed <= 0 THEN <<>>
    ELSE TextContent(lines_needed - 1) \o TextLine(lines_needed - 1)

\* lines_needed = n // 64; the lines, encoded, [:n]
TextChunk(n) == SlicePrefix(TextContent(n \div 64), n)

\* os.urandom(n), n >= 0: any n bytes (two byte values stand for all)
RandomBytes == {90, 165}
RandomChunks(n) == [1..n -> RandomBytes]

ContentTypes == {"random", "zeros", "pattern", "text"}

\* the chunks one iteration can build for a requested length n
Chunks(type, n) ==
    CASE type = "zeros"   -> {ZerosChunk(n)}
      [] type = "pattern" -> {PatternChunk(n)}
      [] type = "text"    -> {TextChunk(n)}
      [] OTHER            -> RandomChunks(Max(n, 0))

\* os.urandom raises ValueError for a negative length
UrandomRaises(type, n) == type = "random" /\ n < 0

(***************************************************************************)
(* generate_dummy_file                                                     *)
(***************************************************************************)
\* Python integers are unbounded; the model identifies all values more than
\* LoopSlack beyond the requested size (a loop that never ends keeps
\* counting, and no loop that ends gets there).
LoopSlack == 1
Abs(x) == IF x < 0 THEN 0 - x ELSE x
Cap(x) == Max(Min(x, Abs(size_bytes) + LoopSlack),
              0 - (Abs(size_bytes) + LoopSlack))

\* current_chunk_size = min(chunk_size, remaining)
CurrentChunkSize(c, r) == Min(c, r)

Prefixes(seq) == { SubSeq(seq, 1, k) : k \in 0..Len(seq) }

File(data) == [exists |-> TRUE, data |-> data]
NoFile == [exists |-> FALSE, data |-> <<>>]

callerVars == <<size_str, parsed, args, chunk_size, sizes_bytes, i,
                success_count, response, prompts, failed_msgs, results, fs0>>

UncaughtIOError(where) ==
    /\ io_error' = where
    /\ ret' = ret
    /\ pc' = "crashed"
    /\ exit_code' = 1

\* the except IOError branch: report and return False
CaughtIOError(where) ==
    /\ io_error' = where
    /\ ret' = "False"
    /\ pc' = "gen_return"
    /\ exit_code' = exit_code

\* open(filename, 'wb') and remaining = size_bytes
GenOpen ==
    /\ pc = "gen_open"
    /\ \/ /\ fs' = [fs EXCEPT ![filename] = File(<<>>)]
          /\ remaining' = size_bytes
          /\ pc' = "gen_loop"
          /\ UNCHANGED <<io_error, ret, exit_code>>
       \/ /\ CaughtIOError("open")
          /\ UNCHANGED <<fs, remaining>>
    /\ UNCHANGED <<filename, size_bytes, content_type, current_chunk_size,
                   chunk, actual_size, iters, requested>>
    /\ UNCHANGED callerVars

LoopContinuesAtZero(r) == r >= 0

\* while remaining > 0
LoopContinues(r) == r > 0

\* the test of the while loop
GenLoopTest ==
    /\ pc = "gen_loop"
    /\ pc' = IF LoopContinues(remaining) THEN "gen_body" ELSE "gen_close"
    /\ UNCHANGED <<filename, size_bytes, content_type, remaining,
                   current_chunk_size, chunk, actual_size, ret, io_error,
                   iters, requested, fs, exit_code>>
    /\ UNCHANGED callerVars

\* one iteration: build the chunk, f.write(chunk), remaining -= its length
GenLoopBody ==
    /\ pc = "gen_body"
    /\ current_chunk_size' = CurrentChunkSize(chunk_size, remaining)
    /\ iters' = Cap(iters + 1)
    /\ requested' = Cap(requested + current_chunk_size')
    /\ \/ /\ UrandomRaises(content_type, current_chunk_size')
          /\ pc' = "crashed"
          /\ exit_code' = 1
          /\ UNCHANGED <<chunk, fs, remaining, ret, io_error>>
       \/ /\ ~UrandomRaises(content_type, current_chunk_size')
          /\ chunk' \in Chunks(content_type, current_chunk_size')
          /\ \/ /\ fs' = [fs EXCEPT ![filename] = File(@.data \o chunk')]
                /\ remaining' = Cap(remaining - current_chunk_size')
                /\ pc' = "gen_loop"
                /\ UNCHANGED <<ret, io_error, exit_code>>
             \/ /\ \E d \in Prefixes(fs[filename].data \o chunk') :
                      fs' = [fs EXCEPT ![filename] = File(d)]
                /\ CaughtIOError("write")
                /\ UNCHANGED remaining
    /\ UNCHANGED <<filename, size_bytes, content_type, actual_size>>
    /\ UNCHANGED callerVars

\* leaving the with block closes the file; then the size is read back
GenFinish ==
    /\ pc = "gen_close"
    /\ \/ /\ actual_size' = Len(fs[filename].data)
          /\ ret' = IF actual_size' = size_bytes THEN "True" ELSE "False"
          /\ pc' = "gen_return"
          /\ UNCHANGED <<fs, io_error, exit_code>>
       \/ /\ \E d \in Prefixes(fs[filename].data) :
                fs' = [fs EXCEPT ![filename] = File(d)]
          /\ CaughtIOError("close")
          /\ UNCHANGED actual_size
    /\ UNCHANGED <<filename, size_bytes, content_type, remaining,
                   current_chunk_size, chunk, iters, requested>>
    /\ UNCHANGED callerVars

NextGen == GenOpen \/ GenLoopTest \/ GenLoopBody \/ GenFinish

\* The calls of generate_dummy_file under study: small sizes with small
\* chunks, and some that cross the 36-byte pattern and the 64-byte line.
MaxGenSize == 5
MaxGenChunk == 3
MaxRandomSize == 4
LargeRequests == { <<40, 36>>, <<75, 36>>, <<90, 40>>, <<75, 70>>,
                   <<130, 64>>, <<130, 1048576>>, <<3, 1048576>> }
GenRequests == ((0..MaxGenSize) \X (1..MaxGenChunk)) \cup LargeRequests
TargetName == <<"f", ".", "b", "i", "n">>
OldData == <<1, 2, 3>>

InitGen ==
    /\ size_str = NoArg /\ parsed = ValueError
    /\ MainIdle
    /\ \E rq \in GenRequests : size_bytes = rq[1] /\ chunk_size = rq[2]
    /\ content_type \in ContentTypes
    /\ content_type = "random" => size_bytes <= MaxRandomSize
    /\ filename = TargetName
    /\ fs \in { [f \in {TargetName} |-> x] : x \in {NoFile, File(OldData)} }
    /\ fs0 = fs
    /\ remaining = 0 /\ current_chunk_size = 0 /\ chunk = <<>>
    /\ actual_size = 0 /\ ret = "none" /\ io_error = "none"
    /\ iters = 0 /\ requested = 0
    /\ pc = "gen_open"

\* the interpreter always executes the next statement of a running call
SpecGen == InitGen /\ [][NextGen]_vars /\ WF_vars(NextGen)

(***************************************************************************)
(* C1, C2, C8, C9: one call of generate_dummy_file                         *)
(***************************************************************************)
Written == fs[filename].data
Returned == pc = "gen_return"
NoIOError == io_error = "none"
Opened == pc \in {"gen_loop", "gen_body", "gen_close", "gen_return"}
             /\ io_error # "open"

\* C1: for every S >= 0, C > 0 and content type, a call that completes
\* without an I/O error leaves a file of exactly S bytes and returns True.
C1_WrittenSizeIsRequested ==
    (Returned /\ NoIOError /\ size_bytes >= 0 /\ chunk_size > 0) =>
        (Len(Written) = size_bytes /\ ret = "True")

\* C2: for every content type and requested length n >= 0, the chunk built
\* in the loop has exactly n bytes.
C2_ChunkHasRequestedLength ==
    (iters > 0 /\ current_chunk_size >= 0) => Len(chunk) = current_chunk_size

\* the k-th character (from 0) of ABCDEFGHIJKLMNOPQRSTUVWXYZ0123456789
AlphabetCode(k) == IF k < 26 THEN 65 + k ELSE 48 + (k - 26)
\* C8: with content type pattern, the byte at file offset p is the alphabet
\* character at index (p mod C) mod 36: every chunk starts the alphabet
\* again; a call that completes without an I/O error wrote all S offsets.
C8_PatternRestartsPerChunk ==
    (content_type = "pattern" /\ chunk_size > 0 /\ Opened) =>
        /\ \A p \in 0..(Len(Written) - 1) :
              Written[p + 1] = AlphabetCode((p % chunk_size) % 36)
        /\ (Returned /\ NoIOError) => Len(Written) = size_bytes

\* 90 bytes in chunks of 40: offsets 36..39 repeat ABCD, offset 40 is A again
C8_Witness ==
    /\ content_type = "pattern" /\ size_bytes = 90 /\ chunk_size = 40
    /\ Returned /\ ret = "True"
    /\ SubSeq(Written, 36, 42) = <<57, 65, 66, 67, 68, 65, 66>>

CeilDiv(a, b) == (a + b - 1) \div b
LoopDone == pc = "gen_close" \/ (Returned /\ io_error \in {"none", "close"})
C9_LoopInvariant ==
    /\ remaining >= 0
    /\ (Opened /\ io_error # "write") => requested + remaining = size_bytes
    /\ iters = CeilDiv(requested, chunk_size)
    /\ LoopDone =>
          /\ remaining = 0
          /\ iters = CeilDiv(size_bytes, chunk_size)
          /\ requested = size_bytes
C9_LoopStep ==
    (pc = "gen_body" /\ pc' = "gen_loop") =>
        /\ current_chunk_size' = Min(chunk_size, remaining)
        /\ remaining' = remaining - current_chunk_size'
        /\ remaining' < remaining
        /\ remaining' >= 0
        /\ iters' = iters + 1
\* C9: for S >= 0 and C > 0 the loop ends after exactly ceil(S / C)
\* iterations with remaining = 0; each iteration requests min(C, remaining)
\* bytes, remaining strictly decreases and is never negative, and the
\* requested lengths sum to S.
C9_WriteLoopTerminates ==
    /\ [](chunk_size > 0 /\ size_bytes >= 0 => C9_LoopInvariant)
    /\ [][chunk_size > 0 /\ size_bytes >= 0 => C9_LoopStep]_vars
    /\ <>(Returned)

\* 75 bytes in chunks of 36 were requested in 3 iterations: 36, 36, 3
C9_Witness ==
    /\ size_bytes = 75 /\ chunk_size = 36 /\ LoopDone
    /\ iters = 3 /\ current_chunk_size = 3 /\ remaining = 0

(***************************************************************************)
(* main                                                                    *)
(***************************************************************************)
\* str(n) for n >= 0
RECURSIVE DecimalText(_)
DecimalText(n) ==
    IF n < 10 THEN <<Digits[n + 1]>>
    ELSE Append(DecimalText(n \div 10), Digits[(n % 10) + 1])

\* os.path.splitext on a path without directories: the extension starts at
\* the last dot, unless only dots precede it
SplitExt(path) ==
    LET dots == { k \in 1..Len(path) : path[k] = "." }
        last == IF dots = {} THEN 0
                ELSE CHOOSE k \in dots : \A j \in dots : j <= k
    IN  IF last = 0 \/ \A j \in 1..(last - 1) : path[j] = "."
        THEN [name |-> path, ext |-> <<>>]
        ELSE [name |-> SubSeq(path, 1, last - 1),
              ext |-> SubSeq(path, last, Len(path))]

\* the filename of the idx-th size (idx from 1, as the name shows it)
FileName(a, idx) ==
    IF Len(a.sizes) > 1
    THEN LET p == SplitExt(a.filename)
         IN  p.name \o <<"_">> \o DecimalText(idx) \o <<"_">>
                 \o a.sizes[idx] \o p.ext
    ELSE a.filename

Targets(a) == { FileName(a, k) : k \in 1..Len(a.sizes) }

\* the command lines under study: up to MaxFiles sizes, a valid and an
\* invalid size token, the default chunk size, chunk sizes 0 and -1, and a
\* chunk size that does not parse
MaxFiles == 2
SizeTokens == { <<"1">>, <<"x">> }
ChunkTokens == { <<"1","M","B">>, <<"0">>, <<"-","1">>, <<"1",".","5">> }
BaseNames == { <<"d", ".", "b">> }

\* parse_size(token), tabulated once over the tokens of the command lines
ParsedArg == [t \in SizeTokens \cup ChunkTokens |-> parse_size(t)]

\* except ValueError
ParseFailed(r) == ~r.ok

SizesInvalidFirst(tokens) == ParseFailed(ParsedArg[tokens[1]])

\* the list comprehension over args.sizes raises ValueError
SizesInvalid(tokens) ==
    \E k \in 1..Len(tokens) : ParseFailed(ParsedArg[tokens[k]])

OverwriteAcceptedUnlessNo(r) == StrLower(r) \notin { <<"n">>, <<"n","o">> }

\* response.lower() in ['y', 'yes'] at the overwrite prompt
OverwriteAccepted(r) == StrLower(r) \in { <<"y">>, <<"y","e","s">> }

\* response.lower() in ['y', 'yes'] at the disk-space prompt
ContinueAccepted(r) == StrLower(r) \in { <<"y">>, <<"y","e","s">> }

ExitStatusAnySuccess(count, total) == IF count > 0 THEN 0 ELSE 1

\* return 0 if success_count == len(sizes_bytes) else 1
ExitStatus(count, total) == IF count = total THEN 0 ELSE 1

\* what the operator may type at a prompt
Responses == { <<"Y","E","S">>, <<"n">>, <<>> }
\* what statvfs may report: free bytes, or -1 when it is not supported
FreeSpaces == { -1, 0, 1000000 }

SizeLists == UNION { [1..n -> SizeTokens] : n \in 1..MaxFiles }

Init ==
    /\ size_str = NoArg /\ parsed = ValueError
    /\ args \in [filename : BaseNames, sizes : SizeLists, type : ContentTypes,
                 chunk_size : ChunkTokens, force : BOOLEAN]
    /\ fs \in [Targets(args) -> {NoFile, File(OldData)}]
    /\ fs0 = fs
    /\ chunk_size = 0 /\ sizes_bytes = <<>> /\ i = 0
    /\ success_count = 0 /\ response = <<>> /\ exit_code = -1
    /\ prompts = 0 /\ failed_msgs = 0 /\ results = <<>>
    /\ GenIdle
    /\ pc = "main"

\* chunk_size = parse_size(args.chunk_size), or report and return 1
ParseChunkSize ==
    /\ pc = "main"
    /\ LET r == ParsedArg[args.chunk_size]
       IN  IF ParseFailed(r)
           THEN /\ exit_code' = 1 /\ pc' = "exit"
                /\ UNCHANGED chunk_size
           ELSE /\ chunk_size' = IntOf(r) /\ pc' = "parse_sizes"
                /\ UNCHANGED exit_code
    /\ UNCHANGED <<size_str, parsed, args, sizes_bytes, i, success_count,
                   response, fs, fs0, prompts, failed_msgs, results>>
    /\ UNCHANGED genVars

\* sizes_bytes = [parse_size(size) for size in args.sizes], or return 1
ParseSizes ==
    /\ pc = "parse_sizes"
    /\ IF SizesInvalid(args.sizes)
       THEN /\ exit_code' = 1 /\ pc' = "exit"
            /\ UNCHANGED <<sizes_bytes, results>>
       ELSE /\ sizes_bytes' = [k \in 1..Len(args.sizes) |->
                                  IntOf(ParsedArg[args.sizes[k]])]
            /\ results' = [k \in 1..Len(args.sizes) |-> "none"]
            /\ pc' = "for"
            /\ UNCHANGED exit_code
    /\ UNCHANGED <<size_str, parsed, args, chunk_size, i, success_count,
                   response, fs, fs0, prompts, failed_msgs>>
    /\ UNCHANGED genVars

\* the head of the for loop: the next size and its filename, or the summary
ForNext ==
    /\ pc = "for"
    /\ IF i < Len(sizes_bytes)
       THEN /\ i' = i + 1
            /\ size_bytes' = sizes_bytes[i']
            /\ filename' = FileName(args, i')
            /\ pc' = "check_exists"
       ELSE /\ pc' = "summary"
            /\ UNCHANGED <<i, size_bytes, filename>>
    /\ UNCHANGED <<size_str, parsed, args, chunk_size, sizes_bytes,
                   success_count, response, exit_code, fs, fs0, prompts,
                   failed_msgs, results, content_type, remaining,
                   current_chunk_size, chunk, actual_size, ret, io_error,
                   iters, requested>>

\* continue: the file is skipped
Skip ==
    /\ pc' = "for"
    /\ results' = [results EXCEPT ![i] = "skipped"]

\* the overwrite prompt
CheckExists ==
    /\ pc = "check_exists"
    /\ IF fs[filename].exists /\ ~args.force
       THEN \E r \in Responses :
               /\ response' = r
               /\ prompts' = prompts + 1
               /\ IF OverwriteAccepted(r)
                  THEN pc' = "check_space" /\ UNCHANGED results
                  ELSE Skip
       ELSE /\ pc' = "check_space"
            /\ UNCHANGED <<response, prompts, results>>
    /\ UNCHANGED <<size_str, parsed, args, chunk_size, sizes_bytes, i,
                   success_count, exit_code, fs, fs0, failed_msgs>>
    /\ UNCHANGED genVars

\* the call generate_dummy_file(filename, size_bytes, args.type, chunk_size)
GenCall ==
    /\ pc' = "gen_open"
    /\ content_type' = args.type
    /\ remaining' = 0 /\ current_chunk_size' = 0 /\ chunk' = <<>>
    /\ actual_size' = 0 /\ ret' = "none" /\ io_error' = "none"
    /\ iters' = 0 /\ requested' = 0
    /\ UNCHANGED results

\* the disk-space check and its prompt, then the call
CheckSpace ==
    /\ pc = "check_space"
    /\ \E free_space \in FreeSpaces :
          IF free_space # -1 /\ size_bytes > free_space
          THEN \E r \in Responses :
                  /\ response' = r
                  /\ prompts' = prompts + 1
                  /\ IF ContinueAccepted(r)
                     THEN GenCall
                     ELSE /\ Skip
                          /\ UNCHANGED <<content_type, remaining,
                                current_chunk_size, chunk, actual_size, ret,
                                io_error, iters, requested>>
          ELSE /\ GenCall
               /\ UNCHANGED <<response, prompts>>
    /\ UNCHANGED <<size_str, parsed, args, chunk_size, sizes_bytes, i,
                   filename, size_bytes, success_count, exit_code, fs, fs0,
                   failed_msgs>>

\* back in main, the callee's locals gone: count the success, or print
\* "Failed to generate"
AfterGen ==
    /\ pc = "gen_return"
    /\ i > 0
    /\ IF ret = "True"
       THEN /\ success_count' = success_count + 1
            /\ UNCHANGED failed_msgs
       ELSE /\ failed_msgs' = failed_msgs + 1
            /\ UNCHANGED success_count
    /\ results' = [results EXCEPT ![i] =
                      IF ret = "True" THEN "ok"
                      ELSE IF io_error # "none" THEN "ioerror" ELSE "mismatch"]
    /\ pc' = "for"
    /\ content_type' = "random"
    /\ remaining' = 0 /\ current_chunk_size' = 0 /\ chunk' = <<>>
    /\ actual_size' = 0 /\ ret' = "none" /\ io_error' = "none"
    /\ iters' = 0 /\ requested' = 0
    /\ UNCHANGED <<size_str, parsed, args, chunk_size, sizes_bytes, i,
                   filename, size_bytes, response, exit_code, fs, fs0,
                   prompts>>

\* the summary line and the exit status
MainSummary ==
    /\ pc = "summary"
    /\ exit_code' = ExitStatus(success_count, Len(sizes_bytes))
    /\ pc' = "exit"
    /\ UNCHANGED <<size_str, parsed, args, chunk_size, sizes_bytes, i,
                   success_count, response, fs, fs0, prompts, failed_msgs,
                   results>>
    /\ UNCHANGED genVars

Next ==
    \/ ParseChunkSize \/ ParseSizes \/ ForNext \/ CheckExists \/ CheckSpace
    \/ GenOpen \/ GenLoopTest \/ GenLoopBody \/ GenFinish
    \/ AfterGen \/ MainSummary

\* the interpreter always executes the next statement, and the operator
\* answers every prompt
Spec == Init /\ [][Next]_vars /\ WF_vars(Next)

(***************************************************************************)
(* C4, C5, C6, C7, C10: a run of main                                      *)
(***************************************************************************)
Indices == 1..Len(results)
Count(outcome) == Cardinality({ k \in Indices : results[k] = outcome })
\* main has gone through its for loop and returned from the summary
Summarised == pc = "exit" /\ results # <<>>

\* C4: after main has processed all requested sizes the exit status is 0
\* if and only if generate_dummy_file returned True for every requested
\* size; a failed or skipped file makes it 1; the summary counts the
\* successes out of the number of requested sizes.
C4_ExitStatusIffAllSucceeded ==
    Summarised =>
        /\ Len(sizes_bytes) = Len(args.sizes)
        /\ \A k \in Indices : results[k] # "none"
        /\ exit_code \in {0, 1}
        /\ exit_code = 0 <=> \A k \in Indices : results[k] = "ok"
        /\ success_count = Count("ok")

\* two sizes: the first file was written, the second skipped at a prompt
C4_Witness ==
    /\ Summarised
    /\ results = <<"ok", "skipped">>
    /\ success_count = 1 /\ exit_code = 1

BadArguments ==
    \/ ~parse_size(args.chunk_size).ok
    \/ \E k \in 1..Len(args.sizes) : ~parse_size(args.sizes[k]).ok
\* C5: if the chunk-size string or any size argument fails to parse, main
\* returns 1 before any file is opened, truncated or written and before
\* any prompt, also when the invalid size follows valid ones.
C5_ParseFailureTouchesNothing ==
    BadArguments =>
        /\ pc \in {"main", "parse_sizes", "exit"}
        /\ pc = "exit" => exit_code = 1
        /\ fs = fs0
        /\ prompts = 0

\* the second size is invalid, the first file exists: main has returned 1
C5_Witness ==
    /\ pc = "exit" /\ exit_code = 1
    /\ Len(args.sizes) = 2
    /\ parse_size(args.sizes[1]).ok /\ ~parse_size(args.sizes[2]).ok
    /\ parse_size(args.chunk_size).ok
    /\ fs[FileName(args, 1)].exists

Declines(r) == StrLower(r) # <<"y">> /\ StrLower(r) # <<"y", "e", "s">>
C6_DeclineStep ==
    (pc = "check_exists" /\ fs[filename].exists /\ ~args.force
        /\ Declines(response')) =>
        /\ pc' = "for" /\ i' = i
        /\ results' = [results EXCEPT ![i] = "skipped"]
        /\ fs' = fs
        /\ success_count' = success_count
        /\ failed_msgs' = failed_msgs
C6_SkippedInvariant ==
    /\ \A k \in Indices :
          results[k] = "skipped" =>
              fs[FileName(args, k)] = fs0[FileName(args, k)]
    /\ pc \in {"for", "summary", "exit"} =>
          /\ success_count = Count("ok")
          /\ failed_msgs = Count("mismatch") + Count("ioerror")
    /\ Summarised => \A k \in Indices : results[k] # "none"
\* C6: when the target exists, --force is not set and the answer to the
\* overwrite prompt is anything but "y" or "yes" (in any case), the file is
\* skipped: it is left unchanged, counted neither as a success nor as a
\* failure, and the later files are still processed.
C6_DeclinedOverwriteSkips ==
    /\ []C6_SkippedInvariant
    /\ [][C6_DeclineStep]_vars

\* the first file existed and was declined with an empty answer; it is as
\* it was, and the second file was then written
C6_Witness ==
    /\ Summarised
    /\ results = <<"skipped", "ok">>
    /\ ~args.force /\ fs0[FileName(args, 1)].exists
    /\ fs[FileName(args, 1)] = File(OldData)
    /\ fs[FileName(args, 2)].exists
    /\ success_count = 1 /\ failed_msgs = 0

\* the length an undisturbed call writes for S bytes in chunks of C
RECURSIVE UndisturbedLength(_, _, _)
UndisturbedLength(S, C, type) ==
    IF S <= 0 \/ C <= 0 THEN 0
    ELSE LET n == Min(C, S)
         IN  (IF type = "text" THEN Len(TextChunk(n)) ELSE n)
                 + UndisturbedLength(S - n, C, type)
C7_ErrorStep ==
    /\ (io_error = "none" /\ io_error' # "none") =>
          /\ pc' = "gen_return" /\ ret' = "False"
          /\ exit_code' = exit_code
          /\ results' = results /\ success_count' = success_count
    /\ (pc = "gen_return" /\ io_error # "none") =>
          /\ pc' = "for" /\ i' = i
          /\ results' = [results EXCEPT ![i] = "ioerror"]
          /\ success_count' = success_count
C7_OthersInvariant ==
    /\ \A k \in Indices :
          results[k] \in {"ok", "mismatch"} =>
              (results[k] = "ok" <=>
                  UndisturbedLength(sizes_bytes[k], chunk_size, args.type)
                      = sizes_bytes[k])
    /\ Summarised => \A k \in Indices : results[k] # "none"
\* C7: an I/O error while opening or writing a file is caught inside
\* generate_dummy_file, which returns False without raising; main goes on
\* with the remaining files, and every other file ends as its own request
\* decides (as an undisturbed call for it would end).
C7_IOErrorIsLocal ==
    /\ []C7_OthersInvariant
    /\ [][C7_ErrorStep]_vars

\* the first file hit an I/O error, the second was generated all the same
C7_Witness ==
    /\ Summarised
    /\ results = <<"ioerror", "ok">>
    /\ success_count = 1 /\ failed_msgs = 1 /\ exit_code = 1

\* C10: for every --chunk-size string parse_size accepts, "0" and negative
\* numbers included, and every size S > 0, the write loop ends, so that
\* main ends with an exit status.
C10_MainTerminates == <>(exit_code # -1)

====
